---- MODULE Spec2Model ----
(***************************************************************************)
(* Model of dir/dircache/proxied.go: the registry of proxied directories   *)
(* (proxiedDirs), the per-user record (proxiedDir) and the watcher         *)
(* goroutine that each record owns.                                        *)
(*                                                                         *)
(* The registry mutex is held for the whole of close, proxyFor and         *)
(* setOrder, so at most one of them is inside its critical section; `op`   *)
(* is that call (its position and its arguments).  A call is split into    *)
(* more than one step only where it blocks on a watcher (<-d.dying) or     *)
(* where a watcher, which never takes the mutex, can run between its       *)
(* write and its return.  Watchers are goroutines 1..nw, one per           *)
(* go statement of proxyFor; goroutine w owns the channel pair allocated    *)
(* just before it was started, so channels carry the same number.          *)
(***************************************************************************)
EXTENDS Integers, Sequences, FiniteSets

\* ------------------------------------------------------------------ bounds
MaxWatchers == 3    \* watcher goroutines (and die/dying pairs) ever started
MaxFails == 5       \* the count of consecutive failed sessions saturates here
MaxEvents == 2      \* events the transport delivers without an error

\* --------------------------------------------------------------- constants
initialRetryInterval == 10
maxRetryInterval == 60

\* ------------------------------------------------------------------ inputs
Users == {"alice@x", "bob@y"}
UserNames == Users \cup {""}        \* the keys of p.m; "" is the zero UserName
Endpoints == {"E1", "E2"}
NoEp == "zero"                      \* the zero upspin.Endpoint
Nil == 0                            \* a nil channel
Watchers == 1..MaxWatchers

\* A path name is the sequence of its elements, the user first.  A name
\* whose first element is not a user name does not parse.
BadName == <<"not-a-user", "foo">>
Tails == {<<>>, <<"foo">>, <<"dir", "new">>, <<"Access">>}
PathOf(u) == <<u, "foo">>

ErrNotSupported == "ErrNotSupported"
CannotReadLog == "cannot read log at order"
StreamClosed == "Watch event stream closed"
TransportError == "transport error"
NoErr == "nil"

NoDir == [nil |-> TRUE]             \* p.m[u] == nil
Idle == [kind |-> "idle", pc |-> "", name |-> <<>>, ep |-> NoEp, t |-> 0,
         order |-> 0, u |-> "", todo |-> {}]

VARIABLES
    closing,      \* proxiedDirs.closing
    m,            \* proxiedDirs.m: user -> proxiedDir or NoDir
    op,           \* the registry call that holds the mutex, or Idle
    nw,           \* goroutines started so far
    wpc,          \* position of each watcher goroutine
    wuser,        \* d.user of the record each watcher belongs to
    wep,          \* the ep argument of each watcher
    werr,         \* the err of the current iteration of the watcher loop
    sleepFor,     \* the argument of the time.Sleep a watcher is in
    fails,        \* sessions failed since a subscription last started
    dieCloses,    \* close(die) calls made on each die channel
    dyingCloses,  \* close(dying) calls made on each dying channel
    lru,          \* keys held by the LRU: [name, glob]
    log,          \* the change log, the entries of each user
    flushed,      \* length of the flushed prefix of each user's log
    nevents       \* events delivered so far

regVars == <<closing, m, op, nw>>
chanVars == <<dieCloses, dyingCloses>>
watcherVars == <<wpc, wuser, wep, werr, sleepFor, fails>>
cacheVars == <<lru, log, flushed, nevents>>
vars == <<closing, m, op, nw, wpc, wuser, wep, werr, sleepFor, fails,
          dieCloses, dyingCloses, lru, log, flushed, nevents>>

\* ------------------------------------------------------------ collaborators
\* path.Parse: the user of a name, or an error (and the zero Parsed, whose
\* User() is "").
ParseOK(name) == Len(name) >= 1 /\ name[1] \in Users
ParseUser(name) == IF ParseOK(name) THEN name[1] ELSE ""

\* path.DropPath(name, 1): the name without its last element; the root stays.
DropPath(name) == IF Len(name) > 1 THEN SubSeq(name, 1, Len(name) - 1) ELSE name

\* access.IsAccessFile: the last element is "Access" (and is not the root).
IsAccessFile(name) == Len(name) > 1 /\ name[Len(name)] = "Access"

\* The caches the model starts from: nothing cached, a file cached, a
\* directory listing cached.
NoneCached == {}
FileCached == {[name |-> <<u, "foo">>, glob |-> FALSE] : u \in Users}
DirCached == {[name |-> <<u, "dir">>, glob |-> TRUE] : u \in Users}
\* The listing of each user's root cached.
RootCached == {[name |-> <<u>>, glob |-> TRUE] : u \in Users}

\* The orders events carry.
EventOrders == {3}

\* --------------------------------------------------------------- channels
Closed(closes, c) == c # Nil /\ closes[c] >= 1
Running(w) == wpc[w] \notin {"none", "done"}
Locked == op.kind # "idle"

InitOn(caches) ==
    /\ closing = FALSE
    /\ m = [u \in UserNames |-> NoDir]
    /\ op = Idle
    /\ nw = 0
    /\ wpc = [w \in Watchers |-> "none"]
    /\ wuser = [w \in Watchers |-> ""]
    /\ wep = [w \in Watchers |-> NoEp]
    /\ werr = [w \in Watchers |-> NoErr]
    /\ sleepFor = [w \in Watchers |-> 0]
    /\ fails = [w \in Watchers |-> 0]
    /\ dieCloses = [w \in Watchers |-> 0]
    /\ dyingCloses = [w \in Watchers |-> 0]
    /\ lru \in caches
    /\ log = [u \in UserNames |-> <<>>]
    /\ flushed = [u \in UserNames |-> 0]
    /\ nevents = 0

\* ======================================================== proxiedDir.close
\* close(d.die): one more close of the channel d.die.
CloseDie(d) == [dieCloses EXCEPT ![d.die] = @ + 1]

\* A d.close() that does not wait for the watcher.
DyingNotAwaited(d) == TRUE

\* <-d.dying returns once the channel has been closed.
DyingReceived(d) == Closed(dyingCloses, d.dying)

\* A d.close() that leaves d.die as it is.
DieKept(d) == d

\* d.die = nil, the last statement of d.close().
DieCleared(d) == [d EXCEPT !.die = Nil]

\* ===================================================== proxiedDirs.proxyFor
NewDir(ep) ==
    [ep |-> ep, order |-> 0, atime |-> 0, die |-> Nil, dying |-> Nil,
     retryInterval |-> 0]

\* A proxyFor that does not look at p.closing.
ProxyForIgnoresClosing(name) == ~ParseOK(name)

\* if p.closing { return }; parse error { return }
ProxyForReturnsEarly(name) == closing \/ ~ParseOK(name)

\* d != nil && d.ep != *ep
EndpointChanged(d, ep) == d # NoDir /\ d.ep # ep

\* A proxyFor that forgets d.atime.
Untouched(d, t) == d

\* d.atime = time.Now(), the clock reading t
Touch(d, t) == [d EXCEPT !.atime = t]

\* A proxyFor that starts a watcher whenever none is running.
RestartDead(d) == d.die = Nil \/ Closed(dyingCloses, d.dying)

\* A proxyFor that starts a watcher on every call.
AlwaysStart(d) == TRUE

\* if d.die == nil: start a watcher
NoWatcher(d) == d.die = Nil

\* proxyFor from the assignment of d.ep to its last statement, for the
\* record d0 that d.close() has left behind (or NoDir).
ProxyForRest(u, ep, d0, t) ==
    LET d1 == IF EndpointChanged(d0, ep) THEN [d0 EXCEPT !.ep = ep] ELSE d0
        d2 == IF d1 = NoDir THEN NewDir(ep) ELSE d1
        d3 == Touch(d2, t)
        w == nw + 1
    IN  /\ IF NoWatcher(d3)
           THEN /\ nw < MaxWatchers
                /\ nw' = w
                /\ m' = [m EXCEPT ![u] = [d3 EXCEPT !.die = w, !.dying = w]]
                /\ wpc' = [wpc EXCEPT ![w] = "start"]
                /\ wuser' = [wuser EXCEPT ![w] = u]
                /\ wep' = [wep EXCEPT ![w] = ep]
           ELSE /\ m' = [m EXCEPT ![u] = d3]
                /\ UNCHANGED <<nw, wpc, wuser, wep>>
        /\ UNCHANGED <<closing, werr, sleepFor, fails, dyingCloses>>
        /\ UNCHANGED cacheVars

\* p.Lock() and proxyFor up to the point where d.close() blocks, or to its
\* last statement.  t is the reading of the clock during the call.
ProxyFor(name, ep, t) ==
    /\ ~Locked
    /\ LET call == [Idle EXCEPT !.kind = "proxyFor", !.name = name, !.ep = ep, !.t = t]
       IN  IF ProxyForReturnsEarly(name)
           THEN /\ op' = [call EXCEPT !.pc = "return"]
                /\ UNCHANGED <<closing, m, nw>>
                /\ UNCHANGED <<chanVars, watcherVars, cacheVars>>
           ELSE LET u == ParseUser(name)
                    d == m[u]
                IN  IF EndpointChanged(d, ep) /\ d.die # Nil
                    THEN /\ nw < MaxWatchers
                         /\ dieCloses' = CloseDie(d)
                         /\ op' = [call EXCEPT !.pc = "wait", !.u = u]
                         /\ UNCHANGED <<closing, m, nw, dyingCloses>>
                         /\ UNCHANGED <<watcherVars, cacheVars>>
                    ELSE /\ ProxyForRest(u, ep, d, t)
                         /\ op' = [call EXCEPT !.pc = "return", !.u = u]
                         /\ UNCHANGED dieCloses

\* d.close() returns inside proxyFor and proxyFor runs to its last statement.
ProxyForResume ==
    /\ op.kind = "proxyFor"
    /\ op.pc = "wait"
    /\ DyingReceived(m[op.u])
    /\ ProxyForRest(op.u, op.ep, DieCleared(m[op.u]), op.t)
    /\ op' = [op EXCEPT !.pc = "return"]
    /\ UNCHANGED dieCloses

\* The deferred p.Unlock() of proxyFor.
ProxyForReturn ==
    /\ op.kind = "proxyFor"
    /\ op.pc = "return"
    /\ op' = Idle
    /\ UNCHANGED <<closing, m, nw>>
    /\ UNCHANGED <<chanVars, watcherVars, cacheVars>>

\* ===================================================== proxiedDirs.setOrder
\* A setOrder that goes on after a parse error.
SetOrderIgnoresParse(name) == closing

\* if p.closing { return }; parse error { return }
SetOrderReturnsEarly(name) == closing \/ ~ParseOK(name)

\* A setOrder that forgets the order.
OrderLost(d, order) == d

\* d.order = order
WithOrder(d, order) == [d EXCEPT !.order = order]

\* p.Lock() and setOrder up to its last statement.
SetOrder(name, order) ==
    /\ ~Locked
    /\ op' = [Idle EXCEPT !.kind = "setOrder", !.pc = "return", !.name = name,
                          !.order = order]
    /\ IF SetOrderReturnsEarly(name)
       THEN UNCHANGED m
       ELSE LET u == ParseUser(name)
                d == IF m[u] = NoDir THEN NewDir(NoEp) ELSE m[u]
            IN  m' = [m EXCEPT ![u] = WithOrder(d, order)]
    /\ UNCHANGED <<closing, nw>>
    /\ UNCHANGED <<chanVars, watcherVars, cacheVars>>

\* The deferred p.Unlock() of setOrder.
SetOrderReturn ==
    /\ op.kind = "setOrder"
    /\ op.pc = "return"
    /\ op' = Idle
    /\ UNCHANGED <<closing, m, nw>>
    /\ UNCHANGED <<chanVars, watcherVars, cacheVars>>

\* ======================================================== proxiedDirs.close
\* if p.closing { return }
CloseReturnsEarly == closing

\* The records whose d.close() has something to do.
ToClose == {u \in UserNames : m[u] # NoDir /\ m[u].die # Nil}

\* p.Lock(), p.closing = true, and the records the loop has to visit.
Close ==
    /\ ~Locked
    /\ closing' = TRUE
    /\ op' = IF CloseReturnsEarly \/ ToClose = {}
             THEN [Idle EXCEPT !.kind = "close", !.pc = "return"]
             ELSE [Idle EXCEPT !.kind = "close", !.pc = "loop", !.todo = ToClose]
    /\ UNCHANGED <<m, nw>>
    /\ UNCHANGED <<chanVars, watcherVars, cacheVars>>

\* The loop reaches record u (map order is arbitrary): close(d.die).
CloseDir(u) ==
    /\ op.kind = "close"
    /\ op.pc = "loop"
    /\ u \in op.todo
    /\ dieCloses' = CloseDie(m[u])
    /\ op' = [op EXCEPT !.pc = "wait", !.u = u]
    /\ UNCHANGED <<closing, m, nw, dyingCloses>>
    /\ UNCHANGED <<watcherVars, cacheVars>>

\* <-d.dying returns, d.die = nil; on to the next record.
CloseDirResume ==
    /\ op.kind = "close"
    /\ op.pc = "wait"
    /\ DyingReceived(m[op.u])
    /\ m' = [m EXCEPT ![op.u] = DieCleared(@)]
    /\ op' = [op EXCEPT !.u = "", !.todo = @ \ {op.u},
                        !.pc = IF op.todo = {op.u} THEN "return" ELSE "loop"]
    /\ UNCHANGED <<closing, nw>>
    /\ UNCHANGED <<chanVars, watcherVars, cacheVars>>

\* The deferred p.Unlock() of close.
CloseReturn ==
    /\ op.kind = "close"
    /\ op.pc = "return"
    /\ op' = Idle
    /\ UNCHANGED <<closing, m, nw>>
    /\ UNCHANGED <<chanVars, watcherVars, cacheVars>>

\* ======================================================= proxiedDir.watcher
\* A watcher loop that retries after ErrNotSupported.
TerminalOnlyNil(e) == e = NoErr

\* The watcher loop exits on nil and on ErrNotSupported.
Terminal(e) == e = NoErr \/ e = ErrNotSupported

\* strings.Contains(err.Error(), "cannot read log at order")
IsCannotReadLog(e) == e = CannotReadLog

\* d.retryInterval *= 2, capped at maxRetryInterval.
NextRetryInterval(r) == IF 2 * r > maxRetryInterval THEN maxRetryInterval ELSE 2 * r

\* A watch that keeps the interval when dir.Watch succeeds.
RetryIntervalKept(r) == r

\* The interval after dir.Watch has succeeded.
RetryIntervalAfterWatch(r) == initialRetryInterval

\* The entry of watcher: order 0 becomes -1, the interval is set.
WatcherStart(w) ==
    /\ wpc[w] = "start"
    /\ LET u == wuser[w]
           d == m[u]
       IN  m' = [m EXCEPT ![u] =
                    [d EXCEPT !.order = IF d.order = 0 THEN -1 ELSE d.order,
                              !.retryInterval = initialRetryInterval]]
    /\ wpc' = [wpc EXCEPT ![w] = "bind"]
    /\ UNCHANGED <<closing, op, nw, wuser, wep, werr, sleepFor, fails>>
    /\ UNCHANGED <<chanVars, cacheVars>>

\* d.watch(ep) has returned e: the rest of the loop body, up to the return
\* (with the deferred close(d.dying)) or to the call of time.Sleep.
Returned(w, e) ==
    LET u == wuser[w]
        d == m[u]
    IN  /\ werr' = [werr EXCEPT ![w] = e]
        /\ IF Terminal(e)
           THEN /\ wpc' = [wpc EXCEPT ![w] = "done"]
                /\ dyingCloses' = [dyingCloses EXCEPT ![w] = @ + 1]
                /\ wuser' = [wuser EXCEPT ![w] = ""]
                /\ wep' = [wep EXCEPT ![w] = NoEp]
                /\ fails' = [fails EXCEPT ![w] = 0]
                /\ UNCHANGED <<m, sleepFor>>
           ELSE /\ m' = [m EXCEPT ![u] =
                            IF IsCannotReadLog(e) THEN [d EXCEPT !.order = -1] ELSE d]
                /\ sleepFor' = [sleepFor EXCEPT ![w] = d.retryInterval]
                /\ fails' = [fails EXCEPT ![w] = IF @ < MaxFails THEN @ + 1 ELSE @]
                /\ wpc' = [wpc EXCEPT ![w] = "sleep"]
                /\ UNCHANGED <<wuser, wep, dyingCloses>>
        /\ UNCHANGED <<closing, op, nw, dieCloses>>

\* time.Sleep returns; the interval doubles up to the cap; next iteration.
Wake(w) ==
    /\ wpc[w] = "sleep"
    /\ m' = [m EXCEPT ![wuser[w]].retryInterval = NextRetryInterval(@)]
    /\ sleepFor' = [sleepFor EXCEPT ![w] = 0]
    /\ werr' = [werr EXCEPT ![w] = NoErr]
    /\ wpc' = [wpc EXCEPT ![w] = "bind"]
    /\ UNCHANGED <<closing, op, nw, wuser, wep, fails>>
    /\ UNCHANGED <<chanVars, cacheVars>>

\* ========================================================= proxiedDir.watch
\* bind.DirServer(d.l.cfg, ep) fails.
BindFails(w, e) ==
    /\ wpc[w] = "bind"
    /\ Returned(w, e)
    /\ UNCHANGED cacheVars

\* bind.DirServer(d.l.cfg, ep) succeeds.
BindOK(w) ==
    /\ wpc[w] = "bind"
    /\ wpc' = [wpc EXCEPT ![w] = "watch"]
    /\ UNCHANGED <<closing, m, op, nw, wuser, wep, werr, sleepFor, fails>>
    /\ UNCHANGED <<chanVars, cacheVars>>

\* dir.Watch(user + "/", d.order, done) fails.
DirWatchFails(w, e) ==
    /\ wpc[w] = "watch"
    /\ Returned(w, e)
    /\ UNCHANGED cacheVars

\* dir.Watch succeeds: back to the initial interval, on to the select loop.
DirWatchOK(w) ==
    /\ wpc[w] = "watch"
    /\ m' = [m EXCEPT ![wuser[w]].retryInterval = RetryIntervalAfterWatch(@)]
    /\ fails' = [fails EXCEPT ![w] = 0]
    /\ wpc' = [wpc EXCEPT ![w] = "stream"]
    /\ UNCHANGED <<closing, op, nw, wuser, wep, werr, sleepFor>>
    /\ UNCHANGED <<chanVars, cacheVars>>

\* case <-d.die: return nil.  d.die is read from the record at the select.
SelectDie(w) ==
    /\ wpc[w] = "stream"
    /\ Closed(dieCloses, m[wuser[w]].die)
    /\ Returned(w, NoErr)
    /\ UNCHANGED cacheVars

\* case e, ok := <-event with !ok.
SelectClosed(w) ==
    /\ wpc[w] = "stream"
    /\ Returned(w, StreamClosed)
    /\ UNCHANGED cacheVars

\* case e := <-event with e.Error != nil: handleEvent returns e.Error.
SelectErrorEvent(w, e) ==
    /\ wpc[w] = "stream"
    /\ Returned(w, e)
    /\ UNCHANGED cacheVars

\* =================================================== proxiedDir.handleEvent
\* clog.wipeLog(user): the cache and the log without the entries of u.
LruWiped(c, u) == {k \in c : k.name[1] # u}
LogWiped == <<>>

\* clog.logRequestWithOrder(op, name, nil, entry, order) and clog.flush().
LogAppended(l, o, name, order) == Append(l, [op |-> o, name |-> name, order |-> order])
FlushedTo(l) == Len(l)

\* Lines 235-248 on the cache c: an Access file, a cached file, or a file
\* in a cached directory listing.
WatchedAnyParent(c, name) ==
    \/ IsAccessFile(name)
    \/ [name |-> name, glob |-> FALSE] \in c
    \/ [name |-> DropPath(name), glob |-> TRUE] \in c

Watched(c, name) ==
    \/ IsAccessFile(name)
    \/ [name |-> name, glob |-> FALSE] \in c
    \/ /\ DropPath(name) # name
       /\ [name |-> DropPath(name), glob |-> TRUE] \in c

\* A handleEvent that logs every event as a lookup.
LogOpLookup(delete) == "lookupReq"

\* op := lookupReq; if e.Delete { op = deleteReq }.
LogOp(delete) == IF delete THEN "deleteReq" ELSE "lookupReq"

\* A handleEvent that never wipes.
NeverRereading(d) == FALSE

\* if d.order == -1: the record is rereading the current state.
Rereading(d) == d.order = -1

\* A handleEvent that only moves the order forward.
SeenLater(d, order) == [d EXCEPT !.order = IF order > @ THEN order ELSE @]

\* d.order = e.Order.
Seen(d, order) == [d EXCEPT !.order = order]

\* case e := <-event with e.Error == nil: handleEvent(&e) returns nil.
SelectEvent(w, name, order, delete) ==
    /\ wpc[w] = "stream"
    /\ nevents < MaxEvents
    /\ nevents' = nevents + 1
    /\ LET u == wuser[w]
           d == m[u]
           wipe == Rereading(d)
           lru1 == IF wipe THEN LruWiped(lru, u) ELSE lru
           log1 == IF wipe THEN LogWiped ELSE log[u]
           flushed1 == IF wipe THEN 0 ELSE flushed[u]
       IN  /\ lru' = lru1
           /\ IF Watched(lru1, name)
              THEN /\ m' = [m EXCEPT ![u] = Seen(d, order)]
                   /\ log' = [log EXCEPT ![u] = LogAppended(log1, LogOp(delete), name, order)]
                   /\ flushed' = [flushed EXCEPT ![u] =
                                    FlushedTo(LogAppended(log1, LogOp(delete), name, order))]
              ELSE /\ log' = [log EXCEPT ![u] = log1]
                   /\ flushed' = [flushed EXCEPT ![u] = flushed1]
                   /\ UNCHANGED m
    /\ UNCHANGED <<closing, op, nw>>
    /\ UNCHANGED <<chanVars, watcherVars>>

\* ==================================================================== specs
\* One step of the program, the callers and the endpoint drawing their
\* inputs from the given sets: users whose paths are named, endpoints, clock
\* readings, saved orders, errors of bind and Watch, and the names (as the
\* elements after the user), orders and delete flags of events.
NextOn(users, eps, times, saved, errs, tails, orders, deletes) ==
    \/ \E name \in {PathOf(u) : u \in users} \cup {BadName}, ep \in eps, t \in times :
            ProxyFor(name, ep, t)
    \/ ProxyForResume
    \/ ProxyForReturn
    \/ \E name \in {PathOf(u) : u \in users} \cup {BadName}, order \in saved :
            SetOrder(name, order)
    \/ SetOrderReturn
    \/ Close
    \/ \E u \in UserNames : CloseDir(u)
    \/ CloseDirResume
    \/ CloseReturn
    \/ \E w \in Watchers : WatcherStart(w)
    \/ \E w \in Watchers, e \in errs : BindFails(w, e)
    \/ \E w \in Watchers : BindOK(w)
    \/ \E w \in Watchers, e \in errs : DirWatchFails(w, e)
    \/ \E w \in Watchers : DirWatchOK(w)
    \/ \E w \in Watchers : SelectDie(w)
    \/ \E w \in Watchers : SelectClosed(w)
    \/ \E w \in Watchers, e \in errs : SelectErrorEvent(w, e)
    \/ \E w \in Watchers, tail \in tails, order \in orders, delete \in deletes :
            SelectEvent(w, <<wuser[w]>> \o tail, order, delete)
    \/ \E w \in Watchers : Wake(w)

\* One user, whose endpoint fails in every way.
Init == InitOn({FileCached})
Next ==
    NextOn({"alice@x"}, Endpoints, {1}, {5},
           {ErrNotSupported, CannotReadLog, TransportError},
           {<<"Access">>}, {3}, {FALSE})
Spec == Init /\ [][Next]_vars

\* One user, callers with every argument.
NextCalls ==
    NextOn({"alice@x"}, Endpoints, {1, 2}, {0, 5}, {ErrNotSupported},
           {<<"Access">>}, {3}, {FALSE})
SpecCalls == Init /\ [][NextCalls]_vars

\* Two users, nothing cached.
InitUsers == InitOn({NoneCached})
NextUsers ==
    NextOn(Users, Endpoints, {1}, {5}, {ErrNotSupported}, {<<"foo">>}, {3}, {FALSE})
SpecUsers == InitUsers /\ [][NextUsers]_vars

\* One user, a cache with entries, and events of every kind.
InitEvents == InitOn({FileCached \cup DirCached, RootCached})
NextEvents ==
    NextOn({"alice@x"}, Endpoints, {1}, {5}, {CannotReadLog},
           Tails, EventOrders, BOOLEAN)
SpecEvents == InitEvents /\ [][NextEvents]_vars

\* One user and fair scheduling: a goroutine that can take a step takes it,
\* sleeps and transport calls return, a blocked registry call resumes when
\* the channel it waits for is closed, and a select whose die case is ready
\* again and again takes it.
NextFair ==
    NextOn({"alice@x"}, Endpoints, {1}, {5}, {ErrNotSupported, TransportError},
           {<<"Access">>}, {3}, {FALSE})
Fairness ==
    /\ WF_vars(ProxyForResume)
    /\ WF_vars(CloseDirResume)
    /\ WF_vars(\E u \in UserNames : CloseDir(u))
    /\ \A w \in Watchers :
        /\ WF_vars(WatcherStart(w))
        /\ WF_vars(Wake(w))
        /\ WF_vars(BindOK(w) \/ \E e \in {ErrNotSupported, TransportError} : BindFails(w, e))
        /\ WF_vars(DirWatchOK(w) \/ \E e \in {ErrNotSupported, TransportError} : DirWatchFails(w, e))
        /\ SF_vars(SelectDie(w))
FairSpec == Init /\ [][NextFair]_vars /\ Fairness

\* ================================================================== claims
\* The watcher loops running for user u; a step that starts watcher w; the
\* user a call is for.
RunningFor(u) == {w \in Watchers : Running(w) /\ wuser[w] = u}
Starts(w) == wpc[w] = "none" /\ wpc'[w] # "none"
Target(o) == ParseUser(o.name)

C1_OneWatcher == \A u \in UserNames : Cardinality(RunningFor(u)) <= 1
C1_StartOnChange ==
    \A w \in Watchers :
        Starts(w) => \/ m[wuser'[w]] = NoDir
                     \/ m[wuser'[w]].ep # wep'[w]
\* C1: for every user at most one watcher loop is running at any moment,
\* and a watcher is started only for a user who has no record yet or whose
\* record holds another endpoint: calls that repeat the endpoint of the
\* record start none.
C1_AtMostOneWatcher == [] C1_OneWatcher /\ [][C1_StartOnChange]_vars
C1_Witness ==
    /\ nw = 3
    /\ Cardinality({w \in Watchers : wpc[w] = "done"}) = 1
    /\ \A u \in Users : Cardinality(RunningFor(u)) = 1

\* C2: once the die channel of a watcher is closed, the watcher closes its
\* dying channel in the end.
C2_DieLeadsToDying ==
    \A w \in Watchers : (dieCloses[w] >= 1) ~> (dyingCloses[w] >= 1)

C3_NoneAfterClose ==
    (closing /\ op.kind # "close") => \A w \in Watchers : ~Running(w)
C3_NoStartWhileClosing == closing => nw' = nw /\ \A w \in Watchers : ~Starts(w)
\* C3: once close has returned no watcher loop is running for any user,
\* and no watcher is started while closing is true.
C3_ClosedForGood == [] C3_NoneAfterClose /\ [][C3_NoStartWhileClosing]_vars
C3_Witness ==
    /\ closing
    /\ op = Idle
    /\ nw >= 2
    /\ \A u \in Users : m[u] # NoDir /\ m[u].dying # Nil /\ m[u].die = Nil

\* C4: when a watcher is started for a record that had a watcher before,
\* the dying channel of the earlier watcher is already closed, and the
\* endpoint of the record is the endpoint of the new watcher.
C4_OldDiesFirst ==
    [][\A w \in Watchers :
          Starts(w) =>
              LET u == wuser'[w]
              IN  /\ m'[u].ep = wep'[w]
                  /\ (m[u] # NoDir /\ m[u].dying # Nil) => dyingCloses[m[u].dying] >= 1]_vars
C4_Witness ==
    /\ ~closing
    /\ wpc[1] = "done" /\ dieCloses[1] = 1 /\ dyingCloses[1] = 1 /\ werr[1] = NoErr
    /\ Running(2) /\ wep[2] = "E2" /\ m["alice@x"].ep = "E2" /\ m["alice@x"].die = 2

\* C5: a watcher that is in its retry sleep when its die channel is closed
\* does not start another session.
C5_NoSessionAfterDie ==
    [][\A w \in Watchers :
          (wpc[w] = "sleep" /\ Closed(dieCloses, w)) => wpc'[w] # "bind"]_vars

\* C6: a watcher whose session returned ErrNotSupported has exited and
\* closed dying, without sleeping and without another session.
C6_UnsupportedIsTerminal ==
    \A w \in Watchers :
        werr[w] = ErrNotSupported =>
            wpc[w] = "done" /\ dyingCloses[w] = 1 /\ sleepFor[w] = 0
C6_Witness ==
    \E w \in Watchers : werr[w] = ErrNotSupported /\ wpc[w] = "done" /\ dieCloses[w] = 0

ExpectedSleeps == <<10, 20, 40, 60>>
ExpectedSleep(n) == ExpectedSleeps[IF n < Len(ExpectedSleeps) THEN n ELSE Len(ExpectedSleeps)]
\* C7: the sleep after the n-th consecutive failed session is 10, 20, 40,
\* 60, 60, ... seconds, n counted from the last subscription that started
\* (or from the start of the watcher), and the interval is 10 while a
\* subscription is open.
C7_Backoff ==
    \A w \in Watchers :
        /\ wpc[w] = "sleep" => sleepFor[w] = ExpectedSleep(fails[w])
        /\ wpc[w] = "stream" => m[wuser[w]].retryInterval = 10
C7_Witness ==
    \E w \in Watchers : wpc[w] = "sleep" /\ fails[w] >= 5 /\ sleepFor[w] = 60

\* C8 as claimed: once setOrder(path, c) has run with a parseable path, a
\* record of the user exists and its order is c.
C8_OrderSet ==
    (op.kind = "setOrder" /\ ParseOK(op.name)) =>
        m[Target(op)] # NoDir /\ m[Target(op)].order = op.order

\* C8 as amended: the same, for a call made while closing is false on a
\* record that has no watcher (die is nil).
C8_OrderSetBeforeWatcher ==
    (op.kind = "setOrder" /\ ParseOK(op.name) /\ ~closing) =>
        /\ m[Target(op)] # NoDir
        /\ m[Target(op)].die = Nil => m[Target(op)].order = op.order
C8_Witness ==
    /\ op.kind = "setOrder" /\ op.order = 5 /\ ~closing
    /\ m["alice@x"].die = Nil /\ m["alice@x"].order = 5

\* C9 as claimed: once proxyFor(path, ep) has run with a parseable path, a
\* record of the user exists and its atime is the time of the call.
C9_Touched ==
    (op.kind = "proxyFor" /\ op.pc = "return" /\ ParseOK(op.name)) =>
        m[Target(op)] # NoDir /\ m[Target(op)].atime = op.t

\* C9 as amended: the same, for a call made while closing is false.
C9_TouchedUnlessClosing ==
    (op.kind = "proxyFor" /\ op.pc = "return" /\ ParseOK(op.name) /\ ~closing) =>
        m[Target(op)] # NoDir /\ m[Target(op)].atime = op.t
C9_Witness ==
    /\ op.kind = "proxyFor" /\ op.pc = "return" /\ op.t = 2 /\ ~closing
    /\ m["alice@x"] # NoDir
    /\ m["alice@x"].atime = 2 /\ m["alice@x"].ep = op.ep
    /\ \E w \in Watchers : wpc[w] = "stream"

BadCall(o) == o.kind \in {"proxyFor", "setOrder"} /\ ~ParseOK(o.name)
C10_BadCallStep ==
    (op' # op /\ (BadCall(op) \/ BadCall(op'))) =>
        /\ UNCHANGED <<closing, m, nw, chanVars, watcherVars, cacheVars>>
        /\ BadCall(op') => op'.pc = "return"
        /\ BadCall(op) => op' = Idle
\* C10: a proxyFor or setOrder call whose path does not parse goes straight
\* to its return, and neither its body nor its return changes anything but
\* the mutex: no record, channel, watcher or cache entry.
C10_ParseErrorIsSilent == [][C10_BadCallStep]_vars
C10_Witness ==
    /\ BadCall(op) /\ ~closing
    /\ m["alice@x"] # NoDir
    /\ \E w \in Watchers : Running(w)

\* C11: between registry calls, the die of a record is nil exactly when no
\* watcher loop is running for the record.
C11_DieNilIffIdle ==
    op = Idle =>
        \A u \in UserNames :
            m[u] # NoDir => ((m[u].die = Nil) <=> (RunningFor(u) = {}))

\* C12: no step of a registry call changes the order of a record whose
\* watcher is running.
C12_RegistryKeepsCursor ==
    [][\A u \in UserNames :
          (op' # op /\ m[u] # NoDir /\ RunningFor(u) # {}) =>
              m'[u].order = m[u].order]_vars

\* The names of the events of user u, and the relevance of an event as the
\* claims word it, on the cache c the event is classified against.
EventNames(u) == {<<u>> \o tail : tail \in Tails}
ClaimRelevant(c, name) ==
    \/ Len(name) > 1 /\ name[Len(name)] = "Access"
    \/ [name |-> name, glob |-> FALSE] \in c
    \/ /\ Len(name) > 1
       /\ [name |-> SubSeq(name, 1, Len(name) - 1), glob |-> TRUE] \in c
\* The log of u an event is appended to: empty when the event wipes.
Base(u) == IF m[u].order = -1 THEN <<>> ELSE log[u]
EveryEvent(P(_, _, _, _)) ==
    nevents' # nevents =>
        \A w \in {x \in Watchers : wpc[x] = "stream"} :
            \A name \in EventNames(wuser[w]), order \in EventOrders, delete \in BOOLEAN :
                SelectEvent(w, name, order, delete) => P(w, name, order, delete)

C13_Step(w, name, order, delete) ==
    LET u == wuser[w]
    IN  IF ClaimRelevant(lru', name)
        THEN m'[u].order = order /\ Len(log'[u]) = Len(Base(u)) + 1
        ELSE m'[u].order = m[u].order /\ log'[u] = Base(u)
\* C13: an event without error is handled as relevant (order taken, one
\* entry appended) exactly when its name is an Access file, or the cache
\* holds the name with glob false, or the cache holds the name's parent
\* with glob true; any other event leaves the order and appends nothing.
C13_RelevantIff == [][EveryEvent(C13_Step)]_vars
C13_Witness ==
    /\ nevents >= 1 /\ lru = RootCached
    /\ m["alice@x"] # NoDir /\ m["alice@x"].order = 5
    /\ log["alice@x"] = <<>>

C14_Step(w, name, order, delete) ==
    LET u == wuser[w]
        entry == [op |-> IF delete THEN "deleteReq" ELSE "lookupReq",
                  name |-> name, order |-> order]
    IN  ClaimRelevant(lru', name) =>
            /\ m'[u].order = order
            /\ log'[u] = Append(Base(u), entry)
            /\ flushed'[u] = Len(log'[u])
            /\ wpc'[w] = "stream"
\* C14: handling a relevant event sets the order to the event's, appends
\* exactly one entry for the event's name with the event's order (a delete
\* if the event deletes, else a lookup) and flushes the log, in the one step
\* that takes the watcher back to the select.
C14_AppliedAtOnce == [][EveryEvent(C14_Step)]_vars
C14_Witness ==
    /\ m["alice@x"] # NoDir /\ m["alice@x"].order = 3
    /\ Len(log["alice@x"]) = 2 /\ flushed["alice@x"] = 2
    /\ log["alice@x"][1].op = "lookupReq" /\ log["alice@x"][2].op = "deleteReq"
    /\ log["alice@x"][1].name # log["alice@x"][2].name

C15_Step(w, name, order, delete) ==
    LET u == wuser[w]
    IN  IF m[u].order = -1
        THEN /\ lru' = {k \in lru : k.name[1] # u}
             /\ Len(log'[u]) <= 1
             /\ ~ClaimRelevant({}, name) =>
                    (log'[u] = <<>> /\ m'[u].order = -1)
        ELSE /\ lru' = lru
             /\ Len(log'[u]) >= Len(log[u])
             /\ SubSeq(log'[u], 1, Len(log[u])) = log[u]
C15_ErrorStep ==
    \A w \in {x \in Watchers : wpc[x] = "stream" /\ wpc'[x] # "stream"} :
        \A e \in {ErrNotSupported, CannotReadLog, TransportError} :
            SelectErrorEvent(w, e) => UNCHANGED <<lru, log, flushed>>
\* C15: an event without error handled while the order is -1 wipes the
\* cache and log entries of the user before it is classified and before its
\* entry is appended; with another order nothing is wiped; an event with an
\* error wipes nothing.
C15_WipeWhenRereading == [][EveryEvent(C15_Step) /\ C15_ErrorStep]_vars
C15_Witness ==
    /\ nevents >= 1
    /\ \A k \in lru : k.name[1] # "alice@x"
    /\ m["alice@x"] # NoDir /\ m["alice@x"].order = -1
    /\ log["alice@x"] = <<>>

\* C16: a step of a watcher that stays in its session changes the order,
\* unless to -1, only to a value at least the previous one.
C16_NonDecreasing ==
    [][\A w \in Watchers :
          (wpc[w] = "stream" /\ wpc'[w] = "stream" /\ op' = op) =>
              LET u == wuser[w]
              IN  (m'[u].order # m[u].order /\ m'[u].order # -1) =>
                      m'[u].order >= m[u].order]_vars
C16_Step(w, name, order, delete) ==
    LET u == wuser[w]
    IN  /\ m'[u].order \in {m[u].order, order}
        /\ ClaimRelevant(lru', name) => m'[u].order = order
C16_FollowsEvents == [][EveryEvent(C16_Step)]_vars
C16_Witness ==
    /\ lru = RootCached
    /\ m["alice@x"] # NoDir /\ m["alice@x"].order = 3
    /\ Len(log["alice@x"]) >= 1
    /\ \E w \in Watchers : wpc[w] = "stream" /\ wuser[w] = "alice@x"

\* C17: the start of a watcher turns the order 0 into -1 and keeps any
\* other order, and the order then stays as it is until the first dir.Watch
\* of the watcher, which requests it.
C17_FirstRequest ==
    [][\A w \in Watchers :
          LET u == wuser[w]
          IN  /\ WatcherStart(w) =>
                    m'[u].order = IF m[u].order = 0 THEN -1 ELSE m[u].order
              /\ (/\ wpc[w] \in {"bind", "watch"} /\ fails[w] = 0
                  /\ wpc'[w] \in {"bind", "watch"}) =>
                    m'[u].order = m[u].order]_vars

\* A watcher between a failed session and the dir.Watch of the next one.
Retrying(w) ==
    \/ wpc[w] = "sleep"
    \/ wpc[w] \in {"bind", "watch"} /\ fails[w] > 0
\* C18: a session that ends with "cannot read log at order" sets the order
\* to -1 before the sleep, a session that ends with another retryable error
\* leaves the order, and the order then stays as it is until the dir.Watch
\* of the next session, which requests it.
C18_OrderAcrossRetry ==
    [][\A w \in Watchers :
          LET u == wuser[w]
          IN  /\ \A e \in {CannotReadLog, TransportError, StreamClosed} :
                    Returned(w, e) =>
                        /\ wpc'[w] = "sleep"
                        /\ m'[u].order = IF e = CannotReadLog THEN -1 ELSE m[u].order
              /\ (Retrying(w) /\ Retrying(w)' /\ (wpc[w] = "sleep" \/ wpc'[w] # "sleep")) =>
                    m'[u].order = m[u].order]_vars

C19_ClosedOnce ==
    \A c \in Watchers :
        /\ dieCloses[c] <= 1
        /\ dyingCloses[c] <= 1
        /\ (dyingCloses[c] = 1) <=> (wpc[c] = "done")
        /\ c > nw => dieCloses[c] = 0
C19_ClosedByOwner ==
    /\ dieCloses' # dieCloses => op' # op
    /\ dyingCloses' # dyingCloses => op' = op
\* C19: no die and no dying channel is closed twice: a die is closed at
\* most once, by a step of a registry call, and a dying is closed once, by
\* the watcher it was allocated for, when that watcher exits.
C19_NoDoubleClose == [] C19_ClosedOnce /\ [][C19_ClosedByOwner]_vars
C19_Witness ==
    /\ closing /\ op = Idle /\ nw >= 2
    /\ \A c \in 1..nw : dieCloses[c] = 1 /\ dyingCloses[c] = 1
    /\ \E c \in Watchers : werr[c] = ErrNotSupported

====
